---------------------------- MODULE Spec2Model ----------------------------
(***************************************************************************)
(* Model of src/app.py, the "RBS Knowledge Corner" Streamlit application:  *)
(* three worksheets (Judgments, Internal Usage, Notice Replies), a blob    *)
(* bucket, per-session state, and the handlers of the six tabs.            *)
(*                                                                         *)
(* Text is a sequence of one-character strings.  A cell as the handlers    *)
(* see it (a value of a row returned by get_all_records) is either a text  *)
(* or a number: the worksheet library returns a cell that holds a decimal  *)
(* numeral as a number, which is why the source wraps cells in str().      *)
(***************************************************************************)
EXTENDS Naturals, Sequences, FiniteSets, TLC

VARIABLES
    now,              \* int(time.time()), the clock in seconds
    judgmentsSheet,   \* data rows of worksheet "Judgments" (row i is sheet row i+1)
    usageSheet,       \* data rows of worksheet "Internal Usage"
    repliesSheet,     \* data rows of worksheet "Notice Replies"
    blobs,            \* names of the objects in the bucket
    pc,               \* per session: where its running handler stands
    editRow,          \* per session: the row the edit form was rendered for
    cellRow,          \* per session: cell.row returned by find()
    form_data,        \* per session: st.session_state.form_data
    submitted,        \* the widget values of the latest submission
    results,          \* the list the latest search built (tab_search, line 198)
    ui,               \* what the latest script run put on the page
    llm,              \* ask_ai in the latest run of a handler that calls it
    notice_text,      \* per session: st.session_state.notice_text
    suggested_cases,  \* per session: st.session_state.suggested_cases
    drafted_reply,    \* per session: st.session_state.drafted_reply
    chat_history      \* per session: st.session_state.chat_history

\* The session state of the Draft Reply tab
replyState == <<notice_text, suggested_cases, drafted_reply>>

vars == <<now, judgmentsSheet, usageSheet, repliesSheet, blobs, pc, editRow,
          cellRow, form_data, submitted, results, ui, llm, notice_text,
          suggested_cases, drafted_reply, chat_history>>

-----------------------------------------------------------------------------
(* Bounds of the model *)

MaxTime == 2
MaxJudgments == 2
MaxReplies == 2

Sessions == {"s1", "s2"}

-----------------------------------------------------------------------------
(* Text and cell values *)

E == <<>>

Digits == <<"0", "1", "2", "3", "4", "5", "6", "7", "8", "9">>

DigitChars == {Digits[i] : i \in 1..10}

DigitVal(c) == (CHOOSE i \in 1..10 : Digits[i] = c) - 1

\* Python str.lower() on one character
LowerChar(c) ==
    CASE c = "A" -> "a"
      [] c = "B" -> "b"
      [] OTHER -> c

\* Python str.lower()
Lower(t) == [i \in 1..Len(t) |-> LowerChar(t[i])]

\* ord(c) for the characters of the model
Ord(c) ==
    CASE c = " " -> 32
      [] c = "," -> 44
      [] c = "1" -> 49
      [] c = "2" -> 50
      [] c = "A" -> 65
      [] c = "B" -> 66
      [] c = "_" -> 95
      [] c = "a" -> 97
      [] c = "b" -> 98
      [] OTHER -> 127

\* Python: needle in hay (both str)
Contains(hay, needle) ==
    \E i \in 0..(Len(hay) - Len(needle)) :
        \A k \in 1..Len(needle) : hay[i + k] = needle[k]

RECURSIVE StrNat(_)
\* str(n) for a non-negative int
StrNat(n) == IF n < 10 THEN <<Digits[n + 1]>>
             ELSE StrNat(n \div 10) \o <<Digits[(n % 10) + 1]>>

RECURSIVE IntOf(_)
\* int(t) for a text of decimal digits
IntOf(t) == IF t = E THEN 0
            ELSE 10 * IntOf(SubSeq(t, 1, Len(t) - 1)) + DigitVal(t[Len(t)])

IsNumeral(t) == t # E /\ \A i \in 1..Len(t) : t[i] \in DigitChars

Num(n) == [k |-> "num", n |-> n, s |-> E]
Txt(t) == [k |-> "text", n |-> 0, s |-> t]

\* A cell as get_all_records returns it: a numeral comes back as a number
Numericise(t) == IF IsNumeral(t) THEN Num(IntOf(t)) ELSE Txt(t)

\* Python str(v)
Str(v) == IF v.k = "num" THEN StrNat(v.n) ELSE v.s

\* Python truthiness of a cell value
Truthy(v) == IF v.k = "num" THEN v.n # 0 ELSE v.s # E

RECURSIVE Join(_, _)
\* sep.join(parts)
Join(sep, parts) ==
    IF parts = <<>> THEN E
    ELSE IF Len(parts) = 1 THEN parts[1]
    ELSE parts[1] \o sep \o Join(sep, Tail(parts))


-----------------------------------------------------------------------------
(* The Judgments worksheet and the Add-Judgment form (tab_add) *)

\* The three options of the status selectbox; a glyph is one character
STATUS_GOOD == <<"GREEN", " ", "Good Law">>
STATUS_CAUTION == <<"YELLOW", " ", "Distinguished / Caution">>
STATUS_BAD == <<"RED", " ", "Overruled / Bad Law">>

StatusOptions == <<STATUS_GOOD, STATUS_CAUTION, STATUS_BAD>>

\* Columns A..J of worksheet "Judgments", in sheet order
JudgmentCols == <<"ID", "CaseName", "ActName", "SectionNumber", "Authority",
                  "BriefFacts", "DecisionHeld", "PDFFileIDs", "AINotes", "Status">>

\* What the user can have typed into the Add-Judgment form, and the files
\* in the uploader
AddInputs ==
    [case_name : {E, <<"A">>},
     act_name : {E},
     section_num : {E},
     authority : {E},
     brief_facts : {E, <<"a">>},
     decision_held : {E, <<"b">>},
     ai_notes : {<<"a">>},
     status : {STATUS_GOOD, STATUS_BAD},
     files : {<<>>, << <<"a">> >>}]

NoSubmission == [form |-> "none", v |-> <<>>]

\* A value of session state that json.loads can have produced: a string or
\* a list of strings
JStr(s) == [kind |-> "str", s |-> s, items |-> <<>>]
JList(items) == [kind |-> "list", s |-> E, items |-> items]

\* Lines 127-131
EmptyForm ==
    [case_name |-> JStr(E), act_name |-> JStr(E), section_number |-> JStr(E),
     authority |-> JStr(E), brief_facts |-> JStr(E), decision_held |-> JStr(E),
     ai_notes |-> JStr(E)]

\* Lines 132-139
InitReplyState ==
    /\ notice_text = [s \in Sessions |-> E]
    /\ suggested_cases = [s \in Sessions |-> JList(<<>>)]
    /\ drafted_reply = [s \in Sessions |-> E]
    /\ chat_history = [s \in Sessions |-> <<>>]

NoId == Txt(<<"-">>)
NoRow == [ID |-> NoId]
\* No call of ask_ai
NoAnswer == [prompt |-> <<>>, res |-> E, err |-> FALSE, calls |-> 0]
NoResults == [ok |-> FALSE, rows |-> <<>>]

\* One element a script run puts on the page: its kind, its fixed text, the
\* row it is about, the index of the record it shows and the value it shows
Element(kind, text, row, ref, arg) ==
    [kind |-> kind, text |-> text, row |-> row, ref |-> ref, arg |-> arg]

\* st.success / st.error / st.warning / st.info with a fixed text
Msg(kind, text) == Element(kind, text, NoRow, 0, NoId)

AddFormValid_FactsOptional(in) == in.case_name # E /\ in.decision_held # E

\* Line 368: the required fields are non-empty
AddFormValid(in) == in.case_name # E /\ in.brief_facts # E /\ in.decision_held # E

\* Line 370: j_id = str(int(time.time()))
NewId == StrNat(now)

\* Line 375: the object name of an uploaded file
BlobName(j_id, fname) == j_id \o <<"_">> \o fname

RECURSIVE Uploaded(_, _, _)
\* Lines 371-376: the names of the files whose upload returned a name, in order
Uploaded(j_id, files, ok) ==
    IF files = <<>> THEN <<>>
    ELSE (IF ok[1] THEN <<BlobName(j_id, files[1])>> ELSE <<>>)
         \o Uploaded(j_id, Tail(files), Tail(ok))

\* Line 378: row_data as the worksheet returns it after the append
JudgmentRow(j_id, in, gcs_file_ids) ==
    [ID |-> Numericise(j_id),
     CaseName |-> Numericise(in.case_name),
     ActName |-> Numericise(in.act_name),
     SectionNumber |-> Numericise(in.section_num),
     Authority |-> Numericise(in.authority),
     BriefFacts |-> Numericise(in.brief_facts),
     DecisionHeld |-> Numericise(in.decision_held),
     PDFFileIDs |-> Numericise(Join(<<",">>, gcs_file_ids)),
     AINotes |-> Numericise(in.ai_notes),
     Status |-> Numericise(in.status)]

SeqSet(q) == {q[i] : i \in 1..Len(q)}

RECURSIVE UploadErrors(_)
\* Line 79: each upload that fails shows an error and returns None
UploadErrors(ok) ==
    IF ok = <<>> THEN <<>>
    ELSE (IF ok[1] THEN <<>> ELSE <<Msg("error", "GCS Upload Error")>>)
         \o UploadErrors(Tail(ok))

\* Lines 367-381: the submit button of add_judgment_form.  Each upload may
\* fail (upload_to_gcs returns None) and append_row may raise.
AddJudgment(s) ==
    /\ pc[s] = "idle"
    /\ Len(judgmentsSheet) < MaxJudgments
    /\ \E in \in AddInputs, appendOk \in BOOLEAN :
       \E ok \in [1..Len(in.files) -> BOOLEAN] :
          LET j_id == NewId
              gcs_file_ids == Uploaded(j_id, in.files, ok)
          IN /\ submitted' = [form |-> "add", v |-> in]
             /\ IF AddFormValid(in)
                THEN /\ blobs' = blobs \cup SeqSet(gcs_file_ids)
                     /\ IF appendOk
                        THEN /\ judgmentsSheet' =
                                  Append(judgmentsSheet, JudgmentRow(j_id, in, gcs_file_ids))
                             /\ form_data' = [form_data EXCEPT ![s] = EmptyForm]
                             /\ ui' = UploadErrors(ok)
                                      \o <<Msg("success", "Saved successfully to the Cloud!")>>
                        ELSE /\ ui' = UploadErrors(ok) \o <<Msg("exception", "append_row")>>
                             /\ UNCHANGED <<judgmentsSheet, form_data>>
                ELSE /\ ui' = <<>>
                     /\ UNCHANGED <<judgmentsSheet, blobs, form_data>>
    /\ UNCHANGED replyState
    /\ UNCHANGED chat_history
    /\ UNCHANGED <<now, usageSheet, repliesSheet, pc, editRow, cellRow, results, llm>>

\* The clock advances by one second
Tick ==
    /\ now < MaxTime
    /\ now' = now + 1
    /\ UNCHANGED replyState
    /\ UNCHANGED chat_history
    /\ UNCHANGED <<judgmentsSheet, usageSheet, repliesSheet, blobs, pc, editRow,
                   cellRow, form_data, submitted, results, ui, llm>>

Init ==
    /\ now = 1
    /\ judgmentsSheet = <<>>
    /\ usageSheet = <<>>
    /\ repliesSheet = <<>>
    /\ blobs = {}
    /\ pc = [s \in Sessions |-> "idle"]
    /\ editRow = [s \in Sessions |-> NoRow]
    /\ cellRow = [s \in Sessions |-> 0]
    /\ form_data = [s \in Sessions |-> EmptyForm]
    /\ submitted = NoSubmission
    /\ results = NoResults
    /\ ui = <<>>
    /\ llm = NoAnswer
    /\ InitReplyState

Next ==
    \/ Tick
    \/ \E s \in Sessions : AddJudgment(s)

Spec == Init /\ [][Next]_vars


-----------------------------------------------------------------------------
(* Add-Judgment: validation and ids *)

\* C2: a submission of add_judgment_form whose case_name, brief_facts or
\* decision_held is empty appends no row to Judgments and uploads no object
\* to the bucket, whatever the other fields and the uploaded files are.
C2_RejectedAddStoresNothing ==
    [][(/\ submitted'.form = "add"
        /\ \/ submitted'.v.case_name = E
           \/ submitted'.v.brief_facts = E
           \/ submitted'.v.decision_held = E)
       => (judgmentsSheet' = judgmentsSheet /\ blobs' = blobs)]_vars

\* A submission with files and an empty brief_facts was made after a save
C2_Witness ==
    /\ submitted.form = "add"
    /\ submitted.v.case_name # E
    /\ submitted.v.brief_facts = E
    /\ submitted.v.files # <<>>
    /\ Len(judgmentsSheet) = 1

\* The blobs that no row of Judgments names in its PDF File IDs
C11_Orphans ==
    {b \in blobs : \A i \in 1..Len(judgmentsSheet) :
                      ~Contains(Str(judgmentsSheet[i].PDFFileIDs), b)}

\* C11: the Add-Judgment save leaves no partial effect: every blob in the
\* bucket is named by a row of Judgments, and the row stored by a save names
\* every file that was submitted with it.
C11_AddSaveIsAllOrNothing ==
    /\ C11_Orphans = {}
    /\ (/\ submitted.form = "add"
        /\ ui # <<>>
        /\ ui[Len(ui)] = Msg("success", "Saved successfully to the Cloud!"))
       => LET row == judgmentsSheet[Len(judgmentsSheet)]
          IN \A k \in 1..Len(submitted.v.files) :
                Contains(Str(row.PDFFileIDs),
                         BlobName(Str(row.ID), submitted.v.files[k]))

\* C4: no two rows of Judgments carry the same ID, also after two saves
\* within one clock second.
C4_JudgmentIdsUnique ==
    \A i, j \in 1..Len(judgmentsSheet) :
        i # j => judgmentsSheet[i].ID # judgmentsSheet[j].ID


-----------------------------------------------------------------------------
(* The edit form of the Search tab (tab_search, lines 245-263) *)

\* What the Add-Judgment form was given for the rows edited below
SeedInputs ==
    [case_name : {<<"A">>},
     act_name : {E},
     section_num : {E, <<"2">>},
     authority : {E},
     brief_facts : {<<"a">>},
     decision_held : {<<"b">>},
     ai_notes : {E, <<"a">>},
     status : {STATUS_GOOD},
     files : {<<>>}]

\* Rows that Add-Judgment saves of the given form inputs append when every
\* upload succeeds
RowsOf(inputs) ==
    {JudgmentRow(StrNat(t), in,
                 Uploaded(StrNat(t), in.files, [i \in 1..Len(in.files) |-> TRUE])) :
        t \in 1..MaxTime, in \in inputs}

\* Worksheets that Add-Judgment saves can have produced: the ids are
\* timestamps, so they never decrease down the sheet
SheetsOf(inputs) ==
    {sh \in UNION {[1..n -> RowsOf(inputs)] : n \in 1..MaxJudgments} :
        \A i \in 1..(Len(sh) - 1) : sh[i].ID.n <= sh[i + 1].ID.n}

SeedSheets == SheetsOf(SeedInputs)

\* What the user can have typed into the edit form
EditInputs ==
    [e_c_name : {<<"B">>, <<"C">>},
     e_act : {E},
     e_sec : {E},
     e_auth : {E},
     e_status : {STATUS_BAD},
     e_facts : {<<"a">>},
     e_decision : {<<"b">>}]

\* The rows of a sheet in which some cell shows the text query
RowsShowing(sheet, query) ==
    {i \in 1..Len(sheet) :
        \E c \in 1..Len(JudgmentCols) : Str(sheet[i][JudgmentCols[c]]) = query}

\* Line 258: judgments_sheet.find(str(j_id)).row: the sheet row of the first
\* cell, of any column, whose text is the query; 0 stands for None.  Sheet
\* row 1 is the header, whose cells are no numerals.
FindRow(sheet, query) ==
    IF RowsShowing(sheet, query) = {} THEN 0
    ELSE 1 + CHOOSE i \in RowsShowing(sheet, query) :
                  \A k \in RowsShowing(sheet, query) : i <= k

\* Line 260: update("B{r}:J{r}", [[...]]) with the row the form was built from
UpdateBJ(sheet, r, e, row) ==
    [sheet EXCEPT ![r - 1] =
        [ID |-> @.ID,
         CaseName |-> Numericise(e.e_c_name),
         ActName |-> Numericise(e.e_act),
         SectionNumber |-> Numericise(e.e_sec),
         Authority |-> Numericise(e.e_auth),
         BriefFacts |-> Numericise(e.e_facts),
         DecisionHeld |-> Numericise(e.e_decision),
         PDFFileIDs |-> row.PDFFileIDs,
         AINotes |-> row.AINotes,
         Status |-> Numericise(e.e_status)]]

\* Lines 193-196, 210-212, 245-256: the run in which "Save Changes" of one
\* listed row was clicked reads the worksheet and builds that row's form
EditRead(s) ==
    /\ pc[s] = "idle"
    /\ \E i \in 1..Len(judgmentsSheet) :
          editRow' = [editRow EXCEPT ![s] = judgmentsSheet[i]]
    /\ pc' = [pc EXCEPT ![s] = "read"]
    /\ UNCHANGED replyState
    /\ UNCHANGED chat_history
    /\ UNCHANGED <<now, judgmentsSheet, usageSheet, repliesSheet, blobs, cellRow,
                   form_data, submitted, results, ui, llm>>

\* Line 258 (and 262-263 when find returns None and cell.row raises)
EditFind(s) ==
    /\ pc[s] = "read"
    /\ LET r == FindRow(judgmentsSheet, Str(editRow[s].ID))
       IN IF r = 0
          THEN /\ pc' = [pc EXCEPT ![s] = "idle"]
               /\ ui' = <<Msg("error", "Error updating sheet")>>
               /\ UNCHANGED cellRow
          ELSE /\ pc' = [pc EXCEPT ![s] = "found"]
               /\ cellRow' = [cellRow EXCEPT ![s] = r]
               /\ UNCHANGED ui
    /\ UNCHANGED replyState
    /\ UNCHANGED chat_history
    /\ UNCHANGED <<now, judgmentsSheet, usageSheet, repliesSheet, blobs, editRow,
                   form_data, submitted, results, llm>>

\* Lines 260-263: the update call, which may raise
EditUpdate(s) ==
    /\ pc[s] = "found"
    /\ \E e \in EditInputs, updateOk \in BOOLEAN :
          /\ submitted' = [form |-> "edit", v |-> e]
          /\ IF updateOk
             THEN /\ judgmentsSheet' = UpdateBJ(judgmentsSheet, cellRow[s], e, editRow[s])
                  /\ ui' = <<Msg("success", "Judgment updated successfully!")>>
             ELSE /\ ui' = <<Msg("error", "Error updating sheet")>>
                  /\ UNCHANGED judgmentsSheet
    /\ pc' = [pc EXCEPT ![s] = "idle"]
    /\ UNCHANGED replyState
    /\ UNCHANGED chat_history
    /\ UNCHANGED <<now, usageSheet, repliesSheet, blobs, editRow, cellRow,
                   form_data, results, llm>>

InitEdit ==
    /\ now = MaxTime
    /\ judgmentsSheet \in SeedSheets
    /\ usageSheet = <<>>
    /\ repliesSheet = <<>>
    /\ blobs = {}
    /\ pc = [s \in Sessions |-> "idle"]
    /\ editRow = [s \in Sessions |-> NoRow]
    /\ cellRow = [s \in Sessions |-> 0]
    /\ form_data = [s \in Sessions |-> EmptyForm]
    /\ submitted = NoSubmission
    /\ results = NoResults
    /\ ui = <<>>
    /\ llm = NoAnswer
    /\ InitReplyState

NextEdit ==
    \E s \in Sessions : EditRead(s) \/ EditFind(s) \/ EditUpdate(s)

SpecEdit == InitEdit /\ [][NextEdit]_vars

\* C5: saving an edit of the judgment with id X leaves the number of rows,
\* every row whose ID is not X, and the ID, PDF File IDs and AI Notes of the
\* row whose ID is X as they were (stated for sheets whose ids are all
\* different, where "the row whose ID is X" is one row).
C5_EditTouchesOnlyItsRow ==
    [][\A s \in Sessions :
        (/\ pc[s] = "found"
         /\ pc'[s] = "idle"
         /\ C4_JudgmentIdsUnique)
        => /\ Len(judgmentsSheet') = Len(judgmentsSheet)
           /\ \A i \in 1..Len(judgmentsSheet) :
                IF judgmentsSheet[i].ID = editRow[s].ID
                THEN /\ judgmentsSheet'[i].ID = judgmentsSheet[i].ID
                     /\ judgmentsSheet'[i].PDFFileIDs = judgmentsSheet[i].PDFFileIDs
                     /\ judgmentsSheet'[i].AINotes = judgmentsSheet[i].AINotes
                ELSE judgmentsSheet'[i] = judgmentsSheet[i]]_vars


\* The row a save of session s leaves where the row old was: the values of the
\* form and, for PDF File IDs and AI Notes, those of the snapshot of s
C14_Written(s, old) ==
    [ID |-> old.ID,
     CaseName |-> Txt(submitted'.v.e_c_name),
     ActName |-> Txt(submitted'.v.e_act),
     SectionNumber |-> Txt(submitted'.v.e_sec),
     Authority |-> Txt(submitted'.v.e_auth),
     BriefFacts |-> Txt(submitted'.v.e_facts),
     DecisionHeld |-> Txt(submitted'.v.e_decision),
     PDFFileIDs |-> editRow[s].PDFFileIDs,
     AINotes |-> editRow[s].AINotes,
     Status |-> Txt(submitted'.v.e_status)]

\* C14: edits are last-write-wins with no version check: a save of judgment
\* X goes through whatever was saved since its snapshot was read, and then
\* every field of the row whose ID is X is the one this save wrote, PDF File
\* IDs and AI Notes being those of its snapshot; nothing of an earlier save
\* remains (stated for sheets whose ids are all different).
C14_LastWriteWins ==
    [][\A s \in Sessions :
        (/\ pc[s] = "found"
         /\ pc'[s] = "idle"
         /\ ui' = <<Msg("success", "Judgment updated successfully!")>>
         /\ C4_JudgmentIdsUnique)
        => \A i \in 1..Len(judgmentsSheet) :
              judgmentsSheet[i].ID = editRow[s].ID
              => judgmentsSheet'[i] = C14_Written(s, judgmentsSheet[i])]_vars

-----------------------------------------------------------------------------
(* The pages: Search (lines 191-241), Internal Matters (285-320), the       *)
(* precedent selector of Draft Reply (432-436) and the judgment selector of *)
(* Chat (509-512)                                                           *)

MaxUsages == 2

\* A row of worksheet "Internal Usage" as get_all_records returns it; the
\* application never writes this worksheet
UsageRow(judgment_id, matter) ==
    [ID |-> Num(1), JudgmentID |-> judgment_id, InternalMatterName |-> matter,
     InternalNotice |-> Txt(E), UsageNotes |-> Txt(E), AIBrief |-> Txt(E)]

\* Lines 485-492: row_data of a saved reply as the worksheet returns it
ReplyRow(record_id, matter_name, notice, used, external_refs, final_draft) ==
    [ID |-> Numericise(record_id),
     MatterName |-> Numericise(matter_name),
     NoticeText |-> Numericise(notice),
     InternalJudgmentsUsed |-> Numericise(used),
     ExternalReferences |-> Numericise(external_refs),
     FinalReply |-> Numericise(final_draft)]

Matches_AnyColumn(search_term, row) ==
    \E c \in 1..Len(JudgmentCols) :
        Contains(Lower(Str(row[JudgmentCols[c]])), search_term)

\* Lines 201-203: the row matches the lower-cased search term
Matches(search_term, row) ==
    \/ Contains(Lower(Str(row.CaseName)), search_term)
    \/ Contains(Lower(Str(row.BriefFacts)), search_term)
    \/ Contains(Lower(Str(row.DecisionHeld)), search_term)

RECURSIVE Filter(_, _)
\* Lines 200-204: the loop that appends the matching rows
Filter(search_term, judgments) ==
    IF judgments = <<>> THEN <<>>
    ELSE (IF Matches(search_term, Head(judgments)) THEN <<Head(judgments)>> ELSE <<>>)
         \o Filter(search_term, Tail(judgments))

\* Lines 198-206
Search(search_term, judgments) ==
    IF search_term # E THEN Filter(search_term, judgments) ELSE judgments

UsageMatches_Raw(use, j_id) == use.JudgmentID = j_id

\* Line 230: the usage record is about the judgment with this id
UsageMatches(use, j_id) == Str(use.JudgmentID) = Str(j_id)

RECURSIVE UsageEntries(_, _, _)
\* Lines 229-232: the "Linked Matter" lines of one judgment, from use k on
UsageEntries(row, internal_uses, k) ==
    IF k > Len(internal_uses) THEN <<>>
    ELSE (IF UsageMatches(internal_uses[k], row.ID)
          THEN <<Element("linked_matter", "Linked Matter", row, k,
                         internal_uses[k].InternalMatterName)>>
          ELSE <<>>)
         \o UsageEntries(row, internal_uses, k + 1)

RECURSIVE ReplyEntries(_, _, _)
\* Lines 235-238: the "Drafted Reply For" lines of one judgment, from reply
\* k on; c_name is a text here
ReplyEntries(row, replies, k) ==
    IF k > Len(replies) THEN <<>>
    ELSE (IF Contains(Str(replies[k].InternalJudgmentsUsed), row.CaseName.s)
          THEN <<Element("drafted_reply_for", "Drafted Reply For", row, k,
                         replies[k].MatterName)>>
          ELSE <<>>)
         \o ReplyEntries(row, replies, k + 1)

\* Lines 211-241: what one listed row puts on the page.  "x" in v raises a
\* TypeError when v is a number: line 216 for the status, line 236 for
\* c_name (evaluated once there is a reply to test).
RowRender(row, internal_uses, replies) ==
    LET head == <<Element("expander", "", row, 0, row.Status)>>
        flag == IF row.Status.k = "text" /\ Contains(row.Status.s, <<"RED">>)
                THEN <<Element("error",
                               "WARNING: This judgment has been marked as Overruled or Bad Law.",
                               row, 0, row.Status)>>
                ELSE <<>>
        usage == UsageEntries(row, internal_uses, 1)
        cited == ReplyEntries(row, replies, 1)
        none == IF Len(usage) + Len(cited) = 0
                THEN <<Element("caption",
                               "This judgment has not been cited in any internal matters yet.",
                               row, 0, NoId)>>
                ELSE <<>>
    IN IF row.Status.k = "num"
       THEN [raised |-> TRUE, elems |-> head]
       ELSE IF row.CaseName.k = "num" /\ replies # <<>>
       THEN [raised |-> TRUE, elems |-> head \o flag \o usage]
       ELSE [raised |-> FALSE, elems |-> head \o flag \o usage \o cited \o none]

RECURSIVE RenderRows(_, _, _)
\* Lines 210-275: the loop over the results; an exception ends it with the
\* warning of line 275
RenderRows(rows, internal_uses, replies) ==
    IF rows = <<>> THEN <<>>
    ELSE LET r == RowRender(Head(rows), internal_uses, replies)
         IN IF r.raised
            THEN r.elems \o <<Msg("warning", "Could not fetch records.")>>
            ELSE r.elems \o RenderRows(Tail(rows), internal_uses, replies)

\* What the user can have typed into the search box
SearchQueries ==
    {E, <<"a">>, <<"B">>, <<"A", "B">>, <<"b", "a">>, <<"2">>}

\* Lines 191-275: a run of the Search tab; reading the worksheets may raise
RenderSearch ==
    /\ \E q \in SearchQueries, readOk \in BOOLEAN :
          /\ submitted' = [form |-> "search", v |-> q]
          /\ IF readOk
             THEN LET rows == Search(Lower(q), judgmentsSheet)
                  IN /\ results' = [ok |-> TRUE, rows |-> rows]
                     /\ ui' = IF rows # <<>>
                              THEN <<Msg("success", "Showing judgment(s).")>>
                                   \o RenderRows(rows, usageSheet, repliesSheet)
                              ELSE <<>>
             ELSE /\ results' = NoResults
                  /\ ui' = <<Msg("warning", "Could not fetch records.")>>
    /\ UNCHANGED replyState
    /\ UNCHANGED chat_history
    /\ UNCHANGED <<now, judgmentsSheet, usageSheet, repliesSheet, blobs, pc,
                   editRow, cellRow, form_data, llm>>

RECURSIVE TextLess(_, _)
\* Python a < b for two str
TextLess(a, b) ==
    IF a = E THEN b # E
    ELSE IF b = E THEN FALSE
    ELSE IF a[1] = b[1] THEN TextLess(Tail(a), Tail(b))
    ELSE Ord(a[1]) < Ord(b[1])

\* Python a < b for two values of one kind
ValueLess(a, b) == IF a.k = "num" THEN a.n < b.n ELSE TextLess(a.s, b.s)

RECURSIVE Sorted(_)
\* sorted(S) for values of one kind
Sorted(S) ==
    IF S = {} THEN <<>>
    ELSE LET m == CHOOSE x \in S : \A y \in S \ {x} : ValueLess(x, y)
         IN <<m>> \o Sorted(S \ {m})

\* Lines 289-290: the set of the truthy matter names of both worksheets
AllMatters(replies_data, links_data) ==
    {replies_data[i].MatterName : i \in {k \in 1..Len(replies_data) :
                                           Truthy(replies_data[k].MatterName)}}
    \cup
    {links_data[i].InternalMatterName : i \in {k \in 1..Len(links_data) :
                                           Truthy(links_data[k].InternalMatterName)}}

\* sorted() compares a number with a text and raises a TypeError
SortRaises(S) == \E a, b \in S : a.k # b.k

RECURSIVE MatterReplies(_, _, _)
\* Lines 299-312: the replies of the selected matter, from reply k on
MatterReplies(replies_data, selected_matter, k) ==
    IF k > Len(replies_data) THEN <<>>
    ELSE (IF replies_data[k].MatterName = selected_matter
          THEN <<Element("reply", "Reply Drafted", replies_data[k], k,
                         replies_data[k].FinalReply)>>
          ELSE <<>>)
         \o MatterReplies(replies_data, selected_matter, k + 1)

RECURSIVE MatterLinks(_, _, _)
\* Lines 315-320: the links of the selected matter, from link k on
MatterLinks(links_data, selected_matter, k) ==
    IF k > Len(links_data) THEN <<>>
    ELSE (IF links_data[k].InternalMatterName = selected_matter
          THEN <<Element("link", "Judgment ID Cited", links_data[k], k,
                         links_data[k].JudgmentID)>>
          ELSE <<>>)
         \o MatterLinks(links_data, selected_matter, k + 1)

\* Line 293: the options of the matter selectbox
MatterOptions(names) ==
    <<Element("option", "-- Select --", NoRow, 0, NoId)>>
    \o [i \in 1..Len(names) |-> Element("option", "matter", NoRow, i, names[i])]

\* Lines 284-325: a run of the Internal Matters tab with option sel of the
\* selectbox chosen (0 is "-- Select --")
RenderMatters ==
    /\ \E readOk \in BOOLEAN, sel \in 0..(Len(repliesSheet) + Len(usageSheet)) :
          LET all_matters == AllMatters(repliesSheet, usageSheet)
          IN /\ sel <= Cardinality(all_matters)
             /\ ui' =
                  IF ~readOk
                  THEN <<Msg("error", "Error loading internal matters: read failed")>>
                  ELSE IF SortRaises(all_matters)
                  THEN <<Msg("error", "Error loading internal matters: '<' not supported")>>
                  ELSE IF all_matters = {}
                  THEN <<Msg("info", "No internal matters have been logged yet.")>>
                  ELSE LET names == Sorted(all_matters)
                       IN MatterOptions(names)
                          \o (IF sel = 0 THEN <<>>
                              ELSE MatterReplies(repliesSheet, names[sel], 1)
                                   \o MatterLinks(usageSheet, names[sel], 1))
    /\ submitted' = [form |-> "matters", v |-> E]
    /\ UNCHANGED replyState
    /\ UNCHANGED chat_history
    /\ UNCHANGED <<now, judgmentsSheet, usageSheet, repliesSheet, blobs, pc,
                   editRow, cellRow, form_data, results, llm>>

\* Lines 432-436: the multiselect of Draft Reply offers every case name
PrecedentOptions(all_judgments) ==
    [i \in 1..Len(all_judgments) |->
        Element("option", "Select RBS Precedents to include:", all_judgments[i], i,
                all_judgments[i].CaseName)]

\* Lines 431-436 and 470-471: a run of the Draft Reply tab up to the selector
RenderReply ==
    /\ \E readOk \in BOOLEAN :
          ui' = IF readOk THEN PrecedentOptions(judgmentsSheet)
                ELSE <<Msg("error", "Error loading precedents.")>>
    /\ submitted' = [form |-> "reply_tab", v |-> E]
    /\ UNCHANGED replyState
    /\ UNCHANGED chat_history
    /\ UNCHANGED <<now, judgmentsSheet, usageSheet, repliesSheet, blobs, pc,
                   editRow, cellRow, form_data, results, llm>>

RECURSIVE KeepTruthyPdf(_)
\* Line 509: the rows that have a PDF
KeepTruthyPdf(rows) ==
    IF rows = <<>> THEN <<>>
    ELSE (IF Truthy(Head(rows).PDFFileIDs) THEN <<Head(rows)>> ELSE <<>>)
         \o KeepTruthyPdf(Tail(rows))

\* Line 511: c_dict[name], the last row that carries the name
LastNamed(chat_judgments, name) ==
    chat_judgments[CHOOSE i \in 1..Len(chat_judgments) :
                      /\ chat_judgments[i].CaseName = name
                      /\ \A k \in (i + 1)..Len(chat_judgments) :
                            chat_judgments[k].CaseName # name]

RECURSIVE ChatOptions(_, _)
\* Lines 511-512: list(c_dict.keys()): each case name once, in the order of
\* its first row
ChatOptions(chat_judgments, k) ==
    IF k > Len(chat_judgments) THEN <<>>
    ELSE (IF \E i \in 1..(k - 1) : chat_judgments[i].CaseName = chat_judgments[k].CaseName
          THEN <<>>
          ELSE <<Element("option", "Select a Judgment to Chat with:",
                         LastNamed(chat_judgments, chat_judgments[k].CaseName), k,
                         chat_judgments[k].CaseName)>>)
         \o ChatOptions(chat_judgments, k + 1)

\* Lines 508-512 and 539-540: a run of the Chat tab up to the selector
RenderChat ==
    /\ \E readOk \in BOOLEAN :
          ui' = IF readOk THEN ChatOptions(KeepTruthyPdf(judgmentsSheet), 1)
                ELSE <<Msg("warning", "Error fetching data.")>>
    /\ submitted' = [form |-> "chat_tab", v |-> E]
    /\ UNCHANGED replyState
    /\ UNCHANGED chat_history
    /\ UNCHANGED <<now, judgmentsSheet, usageSheet, repliesSheet, blobs, pc,
                   editRow, cellRow, form_data, results, llm>>


-----------------------------------------------------------------------------
(* The worksheets the pages are run on *)

\* Form inputs of the judgments the search is run on
SearchInputs ==
    [case_name : {<<"A", "b">>, <<"1", "2">>},
     act_name : {E, <<"B", "a">>},
     section_num : {E},
     authority : {E},
     brief_facts : {<<"a">>, <<"B">>},
     decision_held : {<<"b">>, <<"2">>},
     ai_notes : {E},
     status : {STATUS_GOOD},
     files : {<<>>}]

\* Form inputs of the judgments the selectors are run on
ViewInputs ==
    [case_name : {<<"A">>, <<"B">>},
     act_name : {E},
     section_num : {E},
     authority : {E},
     brief_facts : {<<"a">>},
     decision_held : {<<"b">>},
     ai_notes : {E},
     status : {STATUS_GOOD, STATUS_CAUTION, STATUS_BAD},
     files : {<<>>, << <<"a">> >>}]

\* Form inputs of the judgments the replies cite
CitedInputs ==
    [case_name : {<<"A">>, <<"A", "b">>, <<"1">>, <<"A", "1">>},
     act_name : {E},
     section_num : {E},
     authority : {E},
     brief_facts : {<<"a">>},
     decision_held : {<<"b">>},
     ai_notes : {E},
     status : {STATUS_GOOD},
     files : {<<>>}]

\* Sequences of at most n elements of S
SeqsUpTo(S, n) == UNION {[1..m -> S] : m \in 0..n}

\* Worksheets that Add-Judgment saves one second apart produce: row i has
\* id i
SheetsApart(inputs) ==
    {[i \in 1..Len(ins) |->
         JudgmentRow(StrNat(i), ins[i],
                     Uploaded(StrNat(i), ins[i].files,
                              [k \in 1..Len(ins[i].files) |-> TRUE]))] :
        ins \in SeqsUpTo(inputs, MaxJudgments) \ {<<>>}}

\* Values of the Judgment ID column of Internal Usage
UsageJudgmentIds == {Num(1), Num(2), Txt(<<"1">>), Txt(<<"1", " ">>)}

\* Values of the Internal Matter Name column of Internal Usage
UsageMatterNames == {Txt(<<"B">>), Txt(<<"a">>), Txt(E), Num(1)}

\* What the multiselect of Draft Reply can have held when a reply was saved:
\* case names that are texts
SelectedLists ==
    {<< <<"A">> >>, << <<"A", "b">> >>, << <<"A", "1">> >>,
     << <<"A">>, <<"A", "b">> >>, << <<"A", "b">>, <<"A", "1">> >>}

\* Rows that saves of Draft Reply append
SavedReplies(matters, selections) ==
    {ReplyRow(StrNat(MaxTime), m, E, Join(<<",", " ">>, sel), E, <<"a">>) :
        m \in matters, sel \in selections}

InitRest ==
    /\ now = MaxTime
    /\ blobs = {}
    /\ pc = [s \in Sessions |-> "idle"]
    /\ editRow = [s \in Sessions |-> NoRow]
    /\ cellRow = [s \in Sessions |-> 0]
    /\ form_data = [s \in Sessions |-> EmptyForm]
    /\ submitted = NoSubmission
    /\ results = NoResults
    /\ ui = <<>>
    /\ llm = NoAnswer
    /\ InitReplyState

\* Judgments to search
InitSearch ==
    /\ InitRest
    /\ judgmentsSheet \in SheetsApart(SearchInputs)
    /\ usageSheet = <<>>
    /\ repliesSheet = <<>>

\* Judgments of every status, with and without PDFs
InitViews ==
    /\ InitRest
    /\ judgmentsSheet \in SheetsApart(ViewInputs)
    /\ usageSheet = <<>>
    /\ repliesSheet = <<>>

\* Judgments and usage records
InitUsage ==
    /\ InitRest
    /\ judgmentsSheet \in SheetsApart(SeedInputs)
    /\ usageSheet \in SeqsUpTo({UsageRow(j, Txt(<<"B">>)) : j \in UsageJudgmentIds},
                               MaxUsages)
    /\ repliesSheet = <<>>

\* Judgments and saved replies that cite some of them
InitCited ==
    /\ InitRest
    /\ judgmentsSheet \in SheetsApart(CitedInputs)
    /\ usageSheet = <<>>
    /\ repliesSheet \in SeqsUpTo(SavedReplies({<<"B">>}, SelectedLists), MaxReplies)

\* Usage records and saved replies of several matters
InitMatters ==
    /\ InitRest
    /\ judgmentsSheet = <<>>
    /\ usageSheet \in SeqsUpTo({UsageRow(Num(1), m) : m \in UsageMatterNames}, MaxUsages)
    /\ repliesSheet \in SeqsUpTo(SavedReplies({<<"B">>, <<"A">>, <<"2">>}, {<<>>}),
                                 MaxReplies)

\* The three pages that list judgments or offer them for selection
NextViews == RenderSearch \/ RenderReply \/ RenderChat

SpecSearch == InitSearch /\ [][RenderSearch]_vars
SpecViews == InitViews /\ [][NextViews]_vars
SpecUsage == InitUsage /\ [][RenderSearch]_vars
SpecCited == InitCited /\ [][RenderSearch]_vars
SpecMatters == InitMatters /\ [][RenderMatters]_vars


-----------------------------------------------------------------------------
(* Metadata extraction (tab_add, lines 334-349) *)

MaxInner == 3

\* The keys of st.session_state.form_data, in the order of lines 129-130
FormKeys == <<"case_name", "act_name", "section_number", "authority",
              "brief_facts", "decision_held", "ai_notes">>

\* The text of an LLM answer is a sequence of tokens
Tok(t, k, v) == [t |-> t, k |-> k, v |-> v]
\* The opening fence of a json code block
FENCE_JSON == Tok("fence_json", "", JStr(E))
\* A bare code fence
FENCE == Tok("fence", "", JStr(E))
NL == Tok("newline", "", JStr(E))
LBRACE == Tok("{", "", JStr(E))
RBRACE == Tok("}", "", JStr(E))
COMMA == Tok(",", "", JStr(E))
ARRAY == Tok("[]", "", JStr(E))
PROSE == Tok("prose", "", JStr(E))
\* "k": v, where v is the text of a string or of a list of strings
Pair(k, v) == Tok("pair", k, v)

RECURSIVE Without(_, _)
\* text.replace(token, "")
Without(text, token) ==
    IF text = <<>> THEN <<>>
    ELSE (IF Head(text) = token THEN <<>> ELSE <<Head(text)>>) \o Without(Tail(text), token)

RECURSIVE LStrip(_)
\* text.lstrip()
LStrip(text) ==
    IF text # <<>> /\ Head(text) = NL THEN LStrip(Tail(text)) ELSE text

RECURSIVE RStrip(_)
\* text.rstrip()
RStrip(text) ==
    IF text # <<>> /\ text[Len(text)] = NL
    THEN RStrip(SubSeq(text, 1, Len(text) - 1))
    ELSE text

\* text.strip()
Strip(text) == RStrip(LStrip(text))

\* Line 342: both fences are replaced by "", then the text is stripped
Unfence(res) == Strip(Without(Without(res, FENCE_JSON), FENCE))

\* The members of a JSON object text: pairs separated by commas
IsMembers(toks) ==
    \/ toks = <<>>
    \/ /\ Len(toks) % 2 = 1
       /\ \A i \in 1..Len(toks) :
             IF i % 2 = 1 THEN toks[i].t = "pair" ELSE toks[i] = COMMA

\* The dict of a JSON object text: the last pair of a key gives its value
DictOf(members) ==
    [k \in {members[i].k : i \in {n \in 1..Len(members) : members[n].t = "pair"}} |->
        members[CHOOSE i \in 1..Len(members) :
                   /\ members[i].t = "pair"
                   /\ members[i].k = k
                   /\ \A n \in (i + 1)..Len(members) :
                         ~(members[n].t = "pair" /\ members[n].k = k)].v]

\* json.loads(text): JSON allows white space between tokens.  kind is
\* "dict", "list", or "error" for a JSONDecodeError.
JsonLoads(text) ==
    LET toks == Without(text, NL)
    IN IF toks = <<ARRAY>>
       THEN [kind |-> "list", dict |-> <<>>]
       ELSE IF /\ Len(toks) >= 2
               /\ toks[1] = LBRACE
               /\ toks[Len(toks)] = RBRACE
               /\ IsMembers(SubSeq(toks, 2, Len(toks) - 1))
       THEN [kind |-> "dict", dict |-> DictOf(SubSeq(toks, 2, Len(toks) - 1))]
       ELSE [kind |-> "error", dict |-> <<>>]

\* data.get(key, default)
DictGet(dict, key, default) == IF key \in DOMAIN dict THEN dict[key] ELSE default

FillForm_KeepMissing(form, dict) ==
    [key \in DOMAIN form |-> IF key \in DOMAIN dict THEN dict[key] ELSE form[key]]

\* Lines 343-344: every key of form_data is assigned
FillForm(form, dict) == [key \in DOMAIN form |-> DictGet(dict, key, JStr(E))]

TryFill_ClearsOnError(form, data) ==
    IF data.kind = "dict" THEN FillForm(form, data.dict)
    ELSE [key \in DOMAIN form |-> JStr(E)]

\* Lines 341-347: the try block.  json.loads raises for a text that is not
\* JSON, and data.get raises for a list before any key is assigned
TryFill(form, data) ==
    IF data.kind = "dict" THEN FillForm(form, data.dict) ELSE form

\* The pairs an answer can hold; "court" is not a key of the form
AnswerPairs ==
    {Pair("case_name", JStr(<<"A">>)), Pair("case_name", JStr(<<"B">>)),
     Pair("court", JStr(<<"b">>))}

\* The fences around an answer: none, a json code block, or an opening
\* fence that is never closed
AnswerFences ==
    {<< <<>>, <<>> >>, << <<FENCE_JSON, NL>>, <<NL, FENCE>> >>, << <<FENCE_JSON, NL>>, <<>> >>}

\* The texts the LLM can answer with: inside the fences, prose, an array, or
\* braces around any sequence of pairs and commas
AnswerTexts ==
    {f[1] \o body \o f[2] :
        f \in AnswerFences,
        body \in {<<PROSE>>, <<ARRAY>>}
                 \cup {<<LBRACE>> \o inner \o <<RBRACE>> :
                          inner \in SeqsUpTo(AnswerPairs \cup {COMMA}, MaxInner)}}

\* Lines 105-116: ask_ai returns (text, None), or (None, error text) for a
\* missing key or a failed call
AskAi(prompt, texts) ==
    {[prompt |-> prompt, res |-> E, err |-> TRUE, calls |-> 1]}
    \cup {[prompt |-> prompt, res |-> res, err |-> FALSE, calls |-> 1] : res \in texts}

\* A prompt is the sequence of the values its f-string embeds, each with the
\* words that precede it
Part(label, text) == [label |-> label, text |-> text]

\* Line 338: the text of the uploaded PDFs is not followed
ExtractPrompt == <<Part("Text:", E)>>

\* Lines 339 and 342: what ask_ai can return for the extraction prompt, with
\* what json.loads makes of the text once the fences are removed
ExtractCalls ==
    {[answer |-> a, data |-> JsonLoads(Unfence(a.res))] : a \in AskAi(ExtractPrompt, AnswerTexts)}

\* Lines 334-349: the "AI: Read PDFs & Auto-Fill" button
ExtractMetadata(s) ==
    /\ pc[s] = "idle"
    /\ \E uploaded \in BOOLEAN :
          /\ submitted' = [form |-> "extract", v |-> <<uploaded>>]
          /\ IF ~uploaded
             THEN /\ ui' = <<Msg("warning", "Upload files first.")>>
                  /\ llm' = NoAnswer
                  /\ UNCHANGED form_data
             ELSE \E call \in ExtractCalls :
                     /\ llm' = call.answer
                     /\ IF call.answer.err
                        THEN /\ ui' = <<>>
                             /\ UNCHANGED form_data
                        ELSE LET data == call.data
                             IN /\ form_data' = [form_data EXCEPT ![s] = TryFill(@, data)]
                                /\ ui' = IF data.kind = "dict"
                                         THEN <<Msg("success", "Auto-filled below!")>>
                                         ELSE <<Msg("error",
                                                    "AI output formatting failed. Fill manually.")>>
    /\ UNCHANGED replyState
    /\ UNCHANGED chat_history
    /\ UNCHANGED <<now, judgmentsSheet, usageSheet, repliesSheet, blobs, pc,
                   editRow, cellRow, results>>

\* st.session_state is private to a session: one session is followed
NextExtract == ExtractMetadata("s1")

SpecExtract == Init /\ [][NextExtract]_vars

-----------------------------------------------------------------------------
(* Draft Reply (tab_reply, lines 386-496) *)

\* What extract_text_from_buffers can return for the uploaded notices: it is
\* empty when no page has a text layer
NoticeTexts == {E, <<"n">>}

\* What the LLM can answer to the analysis prompt
AnalyzeAnswers ==
    {<<PROSE>>, <<LBRACE, RBRACE>>,
     <<FENCE_JSON, NL, LBRACE, Pair("internal_cases", JList(<< <<"A">> >>)),
       RBRACE, NL, FENCE>>,
     <<LBRACE, Pair("internal_cases", JList(<< <<"A">>, <<"Z">> >>)), COMMA,
       Pair("external_suggestions", JList(<< <<"x">> >>)), RBRACE>>}

\* What the LLM can answer to the drafting prompt
DraftTexts == {<<"d">>}

\* What the user can have typed into the widgets of the tab
ExternalRefs == {<<"b">>}
MatterInputs == {E, <<"B">>}
\* The draft area holds drafted_reply until the user clears or retypes it
FinalDrafts(s) == {E, <<"d">>, drafted_reply[s]}

\* The members of a Python value when it is iterated or joined
Items(v) == IF v.kind = "list" THEN v.items ELSE [i \in 1..Len(v.s) |-> <<v.s[i]>>]

\* Truth value of a Python value
JTruthy(v) == IF v.kind = "list" THEN v.items # <<>> ELSE v.s # E

\* Line 398: "Good Law" in j.get("Status", "") raises for a number
CatalogRaises(all_judgments) ==
    \E i \in 1..Len(all_judgments) : all_judgments[i].Status.k = "num"

RECURSIVE Catalog(_)
\* Lines 396-399: good_law_catalog
Catalog(all_judgments) ==
    IF all_judgments = <<>> THEN <<>>
    ELSE (IF Contains(Head(all_judgments).Status.s, <<"Good Law">>)
          THEN <<Part("ID:", Str(Head(all_judgments).ID)),
                 Part("Case:", Str(Head(all_judgments).CaseName)),
                 Part("Facts:", Str(Head(all_judgments).BriefFacts)),
                 Part("Decision:", Str(Head(all_judgments).DecisionHeld))>>
          ELSE <<>>)
         \o Catalog(Tail(all_judgments))

\* Lines 401-413: the analysis prompt
AnalyzePrompt(notice, all_judgments) ==
    <<Part("Read this legal notice:", notice)>> \o Catalog(all_judgments)

\* Lines 390-426: the "Read Notice & Suggest Strategies" button
AnalyzeNotice(s) ==
    /\ pc[s] = "idle"
    /\ \E uploaded \in BOOLEAN :
          /\ submitted' = [form |-> "analyze", v |-> <<uploaded>>]
          /\ IF ~uploaded
             THEN /\ ui' = <<Msg("warning", "Please upload a notice first.")>>
                  /\ llm' = NoAnswer
                  /\ UNCHANGED <<notice_text, suggested_cases>>
             ELSE \E text \in NoticeTexts, readOk \in BOOLEAN :
                  /\ notice_text' = [notice_text EXCEPT ![s] = text]
                  /\ IF ~readOk \/ CatalogRaises(judgmentsSheet)
                     THEN /\ ui' = <<Msg("exception", "analyze")>>
                          /\ llm' = NoAnswer
                          /\ UNCHANGED suggested_cases
                     ELSE \E answer \in AskAi(AnalyzePrompt(text, judgmentsSheet),
                                              AnalyzeAnswers) :
                          /\ llm' = answer
                          /\ IF answer.err
                             THEN /\ ui' = <<>>
                                  /\ UNCHANGED suggested_cases
                             ELSE LET suggestions == JsonLoads(Unfence(answer.res))
                                      external == DictGet(suggestions.dict,
                                                          "external_suggestions", JList(<<>>))
                                  IN IF suggestions.kind = "dict"
                                     THEN /\ suggested_cases' =
                                               [suggested_cases EXCEPT ![s] =
                                                   DictGet(suggestions.dict,
                                                           "internal_cases", JList(<<>>))]
                                          /\ ui' = <<Msg("success", "Analysis complete!")>>
                                                   \o IF JTruthy(external)
                                                      THEN <<Element("info",
                                                                "**AI Suggested External Precedents:**",
                                                                NoRow, 0,
                                                                Txt(Join(<<"\n">>, Items(external))))>>
                                                      ELSE <<>>
                                     ELSE /\ ui' = <<Msg("warning",
                                                         "AI provided suggestions, but formatting was off. Please select manually below.")>>
                                          /\ UNCHANGED suggested_cases
    /\ UNCHANGED chat_history
    /\ UNCHANGED <<now, judgmentsSheet, usageSheet, repliesSheet, blobs, pc,
                   editRow, cellRow, form_data, results, drafted_reply>>

RECURSIVE PickFrom(_, _)
\* The members of a list at the positions of a set, in list order
PickFrom(list, S) ==
    IF list = <<>> THEN <<>>
    ELSE PickFrom(SubSeq(list, 1, Len(list) - 1), S)
         \o IF Len(list) \in S THEN <<list[Len(list)]>> ELSE <<>>

\* Lines 433-436: what the multiselect can return, a selection of all_case_names
Selections(all_judgments) ==
    {PickFrom([i \in 1..Len(all_judgments) |-> all_judgments[i].CaseName], S) :
        S \in SUBSET (1..Len(all_judgments))}

RECURSIVE SelectedDetails(_, _)
\* Lines 444-447: selected_details
SelectedDetails(all_judgments, selected_internal) ==
    IF all_judgments = <<>> THEN <<>>
    ELSE (IF Head(all_judgments).CaseName \in SeqSet(selected_internal)
          THEN <<Part("Case:", Str(Head(all_judgments).CaseName)),
                 Part("Ruling:", Str(Head(all_judgments).DecisionHeld))>>
          ELSE <<>>)
         \o SelectedDetails(Tail(all_judgments), selected_internal)

\* Lines 449-462: draft_prompt
DraftPrompt(notice, all_judgments, selected_internal, external_refs) ==
    <<Part("Original Notice received:", notice)>>
    \o SelectedDetails(all_judgments, selected_internal)
    \o <<Part("You MUST ALSO incorporate these specific external precedents/notes:",
              external_refs)>>

\* Lines 441-468: the "Draft Reply" button, inside the try block of line 431
DraftReply(s) ==
    /\ pc[s] = "idle"
    /\ \E readOk \in BOOLEAN :
          IF ~readOk
          THEN /\ submitted' = [form |-> "draft", v |-> <<>>]
               /\ ui' = <<Msg("error", "Error loading precedents.")>>
               /\ llm' = NoAnswer
               /\ UNCHANGED drafted_reply
          ELSE \E selected_internal \in Selections(judgmentsSheet),
                  external_refs \in ExternalRefs :
               /\ submitted' = [form |-> "draft",
                                v |-> <<selected_internal, external_refs>>]
               /\ IF notice_text[s] # E
                  THEN \E answer \in AskAi(DraftPrompt(notice_text[s], judgmentsSheet,
                                                        selected_internal, external_refs),
                                            DraftTexts) :
                       /\ llm' = answer
                       /\ drafted_reply' = IF answer.err THEN drafted_reply
                                           ELSE [drafted_reply EXCEPT ![s] = answer.res]
                       /\ ui' = PrecedentOptions(judgmentsSheet)
                  ELSE /\ ui' = PrecedentOptions(judgmentsSheet)
                                \o <<Msg("error",
                                         "Please upload and analyze a Notice in Step 1 first.")>>
                       /\ llm' = NoAnswer
                       /\ UNCHANGED drafted_reply
    /\ UNCHANGED chat_history
    /\ UNCHANGED <<now, judgmentsSheet, usageSheet, repliesSheet, blobs, pc,
                   editRow, cellRow, form_data, results, notice_text,
                   suggested_cases>>

ReplyValid_DraftOptional(matter_name, final_draft) == matter_name # E

\* Line 482: matter name and draft are both non-empty
ReplyValid(matter_name, final_draft) == matter_name # E /\ final_draft # E

\* Line 489: ", ".join(selected_internal) raises for a member that is a number
JoinRaises(selected_internal) ==
    \E i \in 1..Len(selected_internal) : selected_internal[i].k = "num"

\* Lines 431-436 and 476-496: the "Save to RBS Knowledge Corner" button.  When
\* the read of line 432 fails, selected_internal is unbound and line 489
\* raises; append_row may raise too.
SaveReply(s) ==
    /\ pc[s] = "idle"
    /\ Len(repliesSheet) < MaxReplies
    /\ \E readOk \in BOOLEAN, appendOk \in BOOLEAN, matter_name \in MatterInputs,
          final_draft \in FinalDrafts(s), external_refs \in ExternalRefs :
       \E selected_internal \in IF readOk THEN Selections(judgmentsSheet) ELSE {<<>>} :
          LET record_id == NewId
              page == IF readOk THEN PrecedentOptions(judgmentsSheet)
                      ELSE <<Msg("error", "Error loading precedents.")>>
              used == Join(<<",", " ">>,
                           [i \in 1..Len(selected_internal) |-> selected_internal[i].s])
          IN /\ submitted' = [form |-> "save", v |-> <<matter_name, final_draft>>]
             /\ IF ~ReplyValid(matter_name, final_draft)
                THEN /\ ui' = page \o <<Msg("error",
                                            "Please provide a Matter Name and ensure the draft is not empty.")>>
                     /\ UNCHANGED repliesSheet
                ELSE IF readOk /\ ~JoinRaises(selected_internal) /\ appendOk
                THEN /\ repliesSheet' =
                          Append(repliesSheet,
                                 ReplyRow(record_id, matter_name, notice_text[s], used,
                                          external_refs, final_draft))
                     /\ ui' = page \o <<Msg("success",
                                            "Notice and Reply successfully recorded! You can view it in the 'Internal Matters' tab.")>>
                ELSE /\ ui' = page \o <<Msg("exception", "save")>>
                     /\ UNCHANGED repliesSheet
    /\ UNCHANGED chat_history
    /\ UNCHANGED <<now, judgmentsSheet, usageSheet, blobs, pc, editRow, cellRow,
                   form_data, results, llm, notice_text, suggested_cases,
                   drafted_reply>>

\* The judgments on file while a reply is drafted: one with a textual name,
\* one named by a numeral
ReplySeeds ==
    {[in EXCEPT !.case_name = c] :
        c \in {<<"A">>, <<"2">>},
        in \in {a \in AddInputs : /\ AddFormValid(a) /\ a.files = <<>>
                                  /\ a.status = STATUS_GOOD}}

InitReply ==
    /\ InitRest
    /\ judgmentsSheet \in {sh \in SheetsApart(ReplySeeds) :
                               /\ Len(sh) = 2
                               /\ sh[1].CaseName = Txt(<<"A">>)
                               /\ sh[2].CaseName = Num(2)}
    /\ usageSheet = <<>>
    /\ repliesSheet = <<>>

\* st.session_state is private to a session: one session is followed
NextReply == AnalyzeNotice("s1") \/ DraftReply("s1") \/ SaveReply("s1")

SpecReply == InitReply /\ [][NextReply]_vars

-----------------------------------------------------------------------------
(* Chat with a judgment (tab_chat, lines 505-540) *)

MaxChats == 1

\* What the user can have typed as a question, and what the LLM can answer
ChatQuestions == {E, <<"q">>}
ChatAnswers == {<<"x">>}

RECURSIVE SplitText(_, _)
\* text.split(sep) for a one-character sep
SplitText(text, sep) ==
    IF \A i \in 1..Len(text) : text[i] # sep THEN <<text>>
    ELSE LET i == CHOOSE k \in 1..Len(text) :
                     text[k] = sep /\ \A n \in 1..(k - 1) : text[n] # sep
         IN <<SubSeq(text, 1, i - 1)>> \o SplitText(SubSeq(text, i + 1, Len(text)), sep)

RECURSIVE TrimText(_)
\* text.strip()
TrimText(text) ==
    IF text # <<>> /\ text[1] = " " THEN TrimText(Tail(text))
    ELSE IF text # <<>> /\ text[Len(text)] = " "
    THEN TrimText(SubSeq(text, 1, Len(text) - 1))
    ELSE text

\* What fetching and reading one file can give: no bytes (lines 82-88), a
\* reader or page that raises, a PDF without pages, or text
ChatFileOutcomes == {"none", "raises", "nopages", "text"}

RECURSIVE History(_, _)
\* Lines 535-538: the chat history, latest first
History(chats, k) ==
    IF k = 0 THEN <<>>
    ELSE <<Element("markdown", "You:", NoRow, k, Txt(chats[k].q)),
           Element("info", "AI:", NoRow, k, Txt(chats[k].a))>>
         \o History(chats, k - 1)

\* Line 528: the chat prompt; the text of a PDF is the text "t"
ChatPrompt(user_question) ==
    <<Part("answer this question:", user_question), Part("Judgment Text:", <<"t">>)>>

\* Lines 508-540: the "Ask AI" button of the Chat tab
AskChat(s) ==
    /\ pc[s] = "idle"
    /\ Len(chat_history[s]) < MaxChats
    /\ KeepTruthyPdf(judgmentsSheet) # <<>>
    /\ \E readOk \in BOOLEAN, user_question \in ChatQuestions :
          /\ submitted' = [form |-> "chat", v |-> <<user_question>>]
          /\ IF ~readOk
             THEN /\ ui' = <<Msg("warning", "Error fetching data.")>>
                  /\ llm' = NoAnswer
                  /\ UNCHANGED chat_history
             ELSE LET options == ChatOptions(KeepTruthyPdf(judgmentsSheet), 1)
                      shown == History(chat_history[s], Len(chat_history[s]))
                  IN \E o \in 1..Len(options) :
                     LET file_ids == SplitText(Str(options[o].row.PDFFileIDs), ",")
                     IN \E got \in [1..Len(file_ids) -> ChatFileOutcomes] :
                        /\ \A i \in 1..Len(file_ids) :
                              TrimText(file_ids[i]) \notin blobs => got[i] = "none"
                        /\ IF user_question = E
                           THEN /\ ui' = options \o shown
                                /\ llm' = NoAnswer
                                /\ UNCHANGED chat_history
                           ELSE IF \E i \in 1..Len(file_ids) : got[i] = "raises"
                           THEN /\ ui' = options \o <<Msg("warning", "Error fetching data.")>>
                                /\ llm' = NoAnswer
                                /\ UNCHANGED chat_history
                           ELSE IF \A i \in 1..Len(file_ids) : got[i] # "text"
                           THEN /\ ui' = options
                                         \o <<Msg("error",
                                                  "Could not extract text from the Cloud Storage files.")>>
                                         \o shown
                                /\ llm' = NoAnswer
                                /\ UNCHANGED chat_history
                           ELSE \E answer \in AskAi(ChatPrompt(user_question), ChatAnswers) :
                                /\ llm' = answer
                                /\ chat_history' =
                                      IF answer.err THEN chat_history
                                      ELSE [chat_history EXCEPT
                                               ![s] = Append(@, [q |-> user_question,
                                                                 a |-> answer.res])]
                                /\ ui' = options
                                         \o History(chat_history'[s], Len(chat_history'[s]))
    /\ UNCHANGED replyState
    /\ UNCHANGED <<now, judgmentsSheet, usageSheet, repliesSheet, blobs, pc,
                   editRow, cellRow, form_data, results>>

-----------------------------------------------------------------------------
(* The four handlers that call the LLM *)

\* One judgment with one PDF is on file, and its blob is in the bucket
LlmSeeds ==
    {in \in AddInputs : /\ AddFormValid(in) /\ in.files # <<>>
                        /\ in.status = STATUS_GOOD}

InitLlm ==
    /\ now = MaxTime
    /\ judgmentsSheet \in {sh \in SheetsApart(LlmSeeds) : Len(sh) = 1}
    /\ blobs = {Str(judgmentsSheet[1].PDFFileIDs)}
    /\ usageSheet = <<>>
    /\ repliesSheet = <<>>
    /\ pc = [s \in Sessions |-> "idle"]
    /\ editRow = [s \in Sessions |-> NoRow]
    /\ cellRow = [s \in Sessions |-> 0]
    /\ form_data = [s \in Sessions |-> EmptyForm]
    /\ submitted = NoSubmission
    /\ results = NoResults
    /\ ui = <<>>
    /\ llm = NoAnswer
    /\ InitReplyState

\* st.session_state is private to a session: one session is followed
NextLlm ==
    \/ ExtractMetadata("s1")
    \/ AnalyzeNotice("s1")
    \/ DraftReply("s1")
    \/ AskChat("s1")

SpecLlm == InitLlm /\ [][NextLlm]_vars

-----------------------------------------------------------------------------
(* Search, warnings and cross-references *)

\* The k-th smallest element of a set of numbers
Kth(S, k) == CHOOSE i \in S : Cardinality({j \in S : j < i}) = k - 1

\* The rows of Judgments that the query q selects according to C1
C1_Hits(q) ==
    {i \in 1..Len(judgmentsSheet) :
        \/ q = E
        \/ \E f \in {"CaseName", "BriefFacts", "DecisionHeld"} :
              Contains(Lower(Str(judgmentsSheet[i][f])), Lower(q))}

\* C1: a search with an empty query returns every record in the original
\* order; a search with query q returns, in the original order, exactly the
\* records in which lower-cased q is a substring of the lower-cased Case
\* Name, Brief Facts or Decision Held, and none that matches only elsewhere.
C1_SearchReturnsExactlyMatches ==
    (submitted.form = "search" /\ results.ok)
    => /\ Len(results.rows) = Cardinality(C1_Hits(submitted.v))
       /\ \A k \in 1..Len(results.rows) :
             results.rows[k] = judgmentsSheet[Kth(C1_Hits(submitted.v), k)]

\* Query "B" returned the second of two rows and left out the first, whose
\* Act Name "Ba" is the only cell that contains "b"
C1_Witness ==
    /\ submitted.form = "search"
    /\ submitted.v = <<"B">>
    /\ results.ok
    /\ Len(judgmentsSheet) = 2
    /\ judgmentsSheet[1].ActName = Txt(<<"B", "a">>)
    /\ results.rows = <<judgmentsSheet[2]>>

\* C3: wherever a judgment whose status is Overruled is listed (the search
\* listing) or offered for selection (the precedent selector of Draft Reply,
\* the judgment selector of Chat), the page carries the Overruled warning
\* for it.
C3_OverruledAlwaysFlagged ==
    \A i \in 1..Len(ui) :
        (/\ ui[i].kind \in {"expander", "option"}
         /\ ui[i].row # NoRow
         /\ ui[i].row.Status = Txt(STATUS_BAD))
        => \E k \in 1..Len(ui) :
              /\ ui[k].kind = "error"
              /\ ui[k].row = ui[i].row

\* The usage records the page lists under judgment row J
C6_Listed(J) ==
    {ui[k].ref : k \in {n \in 1..Len(ui) :
                          ui[n].kind = "linked_matter" /\ ui[n].row = J}}

C7_Listed(J) ==
    {ui[k].ref : k \in {n \in 1..Len(ui) :
                          ui[n].kind = "drafted_reply_for" /\ ui[n].row = J}}

\* C7: the replies listed as citing a listed judgment J are exactly the
\* replies whose Internal Judgments Used contains J's case name as a
\* substring.
C7_RepliesCitingBySubstring ==
    (submitted.form = "search" /\ results.ok)
    => \A r \in 1..Len(results.rows) :
          LET J == results.rows[r]
          IN C7_Listed(J) = {p \in 1..Len(repliesSheet) :
                               Contains(Str(repliesSheet[p].InternalJudgmentsUsed),
                                        Str(J.CaseName))}

\* The matter names some record refers to
C8_Referenced ==
    {v \in {usageSheet[i].InternalMatterName : i \in 1..Len(usageSheet)}
           \cup {repliesSheet[i].MatterName : i \in 1..Len(repliesSheet)} :
        Str(v) # E}

\* C8: the matter list shows each matter name that a usage record or a
\* reply refers to exactly once, shows no other name, and is sorted.
C8_MatterListIsSortedUnion ==
    (/\ submitted.form = "matters"
     /\ ui # <<Msg("error", "Error loading internal matters: read failed")>>)
    => LET shown == {k \in 1..Len(ui) : ui[k].kind = "option" /\ ui[k].ref > 0}
       IN /\ \A v \in C8_Referenced :
                Cardinality({k \in shown : ui[k].arg = v}) = 1
          /\ \A k \in shown : ui[k].arg \in C8_Referenced
          /\ \A k, m \in shown :
                (k < m /\ ui[k].arg.k = ui[m].arg.k) => ValueLess(ui[k].arg, ui[m].arg)

-----------------------------------------------------------------------------
(* Saving a reply and filling the form *)

\* Every stored reply has a Matter Name and a Final Reply
C9_StoredComplete ==
    \A i \in 1..Len(repliesSheet) :
       /\ Str(repliesSheet[i].MatterName) # E
       /\ Str(repliesSheet[i].FinalReply) # E

\* A step that changes the Notice Replies worksheet is a save whose matter
\* name and final draft are both non-empty, and it appends them as one row
C9_AppendsOnlyComplete ==
    repliesSheet' # repliesSheet
    => /\ submitted'.form = "save"
       /\ submitted'.v[1] # E
       /\ submitted'.v[2] # E
       /\ Len(repliesSheet') = Len(repliesSheet) + 1
       /\ SubSeq(repliesSheet', 1, Len(repliesSheet)) = repliesSheet
       /\ Str(repliesSheet'[Len(repliesSheet')].MatterName) = submitted'.v[1]
       /\ Str(repliesSheet'[Len(repliesSheet')].FinalReply) = submitted'.v[2]

\* C9: a reply row is appended only by a save whose matter name and final
\* draft are both non-empty, and after any sequence of Draft-Reply actions
\* every stored reply has a non-empty Matter Name and a non-empty Final Reply.
C9_SavedRepliesComplete == [] C9_StoredComplete /\ [][C9_AppendsOnlyComplete]_vars

\* A save with an empty draft was refused after a reply had been stored
C9_Witness ==
    /\ repliesSheet # <<>>
    /\ submitted.form = "save"
    /\ submitted.v[1] # E
    /\ submitted.v[2] = E
    /\ ui # <<>>
    /\ ui[Len(ui)] = Msg("error",
                         "Please provide a Matter Name and ensure the draft is not empty.")

\* The value a reply text gives for a key: that of its last pair with the
\* key, the empty string when it has none
C10_Value(res, key) ==
    LET at == {i \in 1..Len(res) : res[i].t = "pair" /\ res[i].k = key}
    IN IF at = {} THEN JStr(E)
       ELSE res[CHOOSE i \in at : \A n \in at : n <= i].v

\* The latest extraction got an answer that is a JSON object once its code
\* fences are removed
C10_Parsed ==
    /\ submitted.form = "extract"
    /\ submitted.v = <<TRUE>>
    /\ ~llm.err
    /\ JsonLoads(Unfence(llm.res)).kind = "dict"

\* C10: after an extraction whose answer, stripped of its code fences, is a
\* JSON object, each of the seven form keys holds the answer's value for that
\* key, or the empty string when the answer lacks the key; no key keeps a
\* value from an earlier extraction.
C10_ExtractionFillsEveryKey ==
    C10_Parsed
    => /\ ui = <<Msg("success", "Auto-filled below!")>>
       /\ DOMAIN form_data["s1"] = {FormKeys[i] : i \in 1..Len(FormKeys)}
       /\ \A i \in 1..Len(FormKeys) :
             form_data["s1"][FormKeys[i]] = C10_Value(llm.res, FormKeys[i])

\* A fenced answer that names a court and no case was parsed, and the case
\* name of the form is empty
C10_Witness ==
    /\ C10_Parsed
    /\ llm.res[1] = FENCE_JSON
    /\ \E i \in 1..Len(llm.res) : llm.res[i] = Pair("court", JStr(<<"b">>))
    /\ \A i \in 1..Len(llm.res) : llm.res[i].k # "case_name"
    /\ form_data["s1"].case_name = JStr(E)

\* C12: an extraction that fails, because the LLM call returns an error or
\* because its answer is not a JSON object, changes none of the seven form
\* keys.
C12_FailedExtractionKeepsForm ==
    [][(/\ submitted'.form = "extract"
        /\ submitted'.v = <<TRUE>>
        /\ \/ llm'.err
           \/ ui' = <<Msg("error", "AI output formatting failed. Fill manually.")>>)
       => /\ form_data' = form_data
          /\ \A i \in 1..Len(FormKeys) :
                form_data'["s1"][FormKeys[i]] = form_data["s1"][FormKeys[i]]]_vars

\* An answer that is not JSON came after a case name had been filled in, and
\* the case name is still there
C12_Witness ==
    /\ submitted.form = "extract"
    /\ submitted.v = <<TRUE>>
    /\ ~llm.err
    /\ PROSE \in SeqSet(llm.res)
    /\ ui = <<Msg("error", "AI output formatting failed. Fill manually.")>>
    /\ form_data["s1"].case_name = JStr(<<"A">>)

-----------------------------------------------------------------------------
(* Failures of the LLM *)

\* C13: in the extraction, suggestion, drafting and chat flows, a user action
\* whose LLM call returns an error shows the user an error message, and it
\* calls the LLM once only.
C13_LlmFailureSurfaced ==
    (/\ submitted.form \in {"extract", "analyze", "draft", "chat"}
     /\ llm.calls > 0
     /\ llm.err)
    => /\ llm.calls = 1
       /\ \E k \in 1..Len(ui) : ui[k].kind \in {"error", "warning", "exception"}

-----------------------------------------------------------------------------
(* The drafting prompt *)

\* The prompt of the latest call embeds the text
C15_Embeds(text) == \E k \in 1..Len(llm.prompt) : Contains(llm.prompt[k].text, text)

\* C15: the drafting prompt embeds the notice text, the external references
\* and, for every selected internal case, its Brief Facts and its Decision
\* Held; it names each selected case and no case that was not selected.
C15_DraftPromptEmbedsFactsAndDecisions ==
    (submitted.form = "draft" /\ llm.calls > 0)
    => LET selected_internal == submitted.v[1]
           external_refs == submitted.v[2]
           named == {llm.prompt[k].text :
                        k \in {n \in 1..Len(llm.prompt) : llm.prompt[n].label = "Case:"}}
       IN /\ C15_Embeds(notice_text["s1"])
          /\ C15_Embeds(external_refs)
          /\ \A i \in 1..Len(judgmentsSheet) :
                IF judgmentsSheet[i].CaseName \in SeqSet(selected_internal)
                THEN /\ Str(judgmentsSheet[i].CaseName) \in named
                     /\ C15_Embeds(Str(judgmentsSheet[i].BriefFacts))
                     /\ C15_Embeds(Str(judgmentsSheet[i].DecisionHeld))
                ELSE Str(judgmentsSheet[i].CaseName) \notin named

=============================================================================
